---------------------------- MODULE Spec2Model ----------------------------
(***************************************************************************)
(* BetterStreet -> Precompte: the record reassembler, the field extractor, *)
(* the date parsers and the per-record loop of main, modelled from         *)
(* betterstreet_to_precompte_v5.py.                                        *)
(*                                                                         *)
(* Text is kept as text: a line, a token or a note is a string, and the    *)
(* string methods the code calls (strip, split, replace, startswith, join, *)
(* the "in" substring test) are operators that work character by           *)
(* character.  Optional[T] is a tuple: <<>> is None and <<v>> is a value.   *)
(***************************************************************************)
EXTENDS Integers, Sequences, FiniteSets, TLC

VARIABLES
    \* rebuild_records_by_id, one loop iteration at a time
    lines,      \* its argument: the physical lines
    rb_pc,      \* "scan" (looking for the header), "loop", "done"
    rb_i,       \* index of the next physical line to read
    rebuilt,    \* the list being built, header first
    current,    \* Optional[str]: the open record buffer
    \* extract_fields, called on its own
    ex_record_line, \* its argument: one logical record
    ex_header_cols, \* its argument: the header's column names
    ex_pc,          \* "call", "returned"
    ex_result,      \* Optional[ExtractResult]: what it returned
    \* main
    raw_lines,      \* the lines of the CSV file
    year,           \* the target year
    pc,             \* "start", "loop", "report" (the loop is over), "error"
    rebuilt_lines,
    header_cols,
    ri,             \* place in rebuilt_lines of the next record of the loop
    it,             \* the loop body's local variables, as the last turn left them
    records,
    anomalies,
    kept,
    skipped_other_year,
    aligned_count,
    broken_count

rb_vars == <<lines, rb_pc, rb_i, rebuilt, current>>

ex_vars == <<ex_record_line, ex_header_cols, ex_pc, ex_result>>

main_vars == <<raw_lines, year, pc, rebuilt_lines, header_cols, ri, it, records,
               anomalies, kept, skipped_other_year, aligned_count, broken_count>>

vars == <<rb_vars, ex_vars, main_vars>>

-----------------------------------------------------------------------------
(* Optional values *)

None == <<>>

Some(v) == <<v>>

-----------------------------------------------------------------------------
(* The string methods used by the code *)

SetMin(S) == CHOOSE m \in S : \A k \in S : m <= k

SetMax(S) == CHOOSE m \in S : \A k \in S : m >= k

\* s[i], 1-based
Ch(s, i) == SubSeq(s, i, i)

\* the characters str.strip() removes, among those the inputs use
Whitespace == {" ", "\t", "\n", "\r"}

\* U+FEFF.  It is written as a printable character that no input uses
\* otherwise; like U+FEFF it is no whitespace, no quote and no delimiter.
BOM == "^"

\* s.strip(chars)
StripChars(s, cs) ==
    LET keep == {i \in 1..Len(s) : Ch(s, i) \notin cs}
    IN  IF keep = {} THEN "" ELSE SubSeq(s, SetMin(keep), SetMax(keep))

\* s.rstrip(chars)
RStripChars(s, cs) ==
    LET keep == {i \in 1..Len(s) : Ch(s, i) \notin cs}
    IN  IF keep = {} THEN "" ELSE SubSeq(s, 1, SetMax(keep))

\* s.strip()
Strip(s) == StripChars(s, Whitespace)

\* s.replace(c, "") for a single character c
RECURSIVE RemoveChar(_, _)
RemoveChar(s, c) ==
    IF s = "" THEN ""
    ELSE (IF Ch(s, 1) = c THEN "" ELSE Ch(s, 1)) \o RemoveChar(SubSeq(s, 2, Len(s)), c)

\* s.startswith(p)
StartsWith(s, p) == Len(s) >= Len(p) /\ SubSeq(s, 1, Len(p)) = p

\* s.split(d): the list of the texts between the delimiters
RECURSIVE Split(_, _)
Split(s, d) ==
    LET at == {i \in 1..Len(s) : Ch(s, i) = d}
    IN  IF at = {} THEN <<s>>
        ELSE <<SubSeq(s, 1, SetMin(at) - 1)>> \o Split(SubSeq(s, SetMin(at) + 1, Len(s)), d)

\* s.split(d, 1)[0]: the text before the first delimiter
SplitFirst(s, d) ==
    LET at == {i \in 1..Len(s) : Ch(s, i) = d}
    IN  IF at = {} THEN s ELSE SubSeq(s, 1, SetMin(at) - 1)

\* sep.join(parts)
RECURSIVE Join(_, _)
Join(parts, sep) ==
    IF parts = <<>> THEN ""
    ELSE IF Len(parts) = 1 THEN parts[1]
    ELSE parts[1] \o sep \o Join(Tail(parts), sep)

\* needle in hay
Contains(hay, needle) ==
    \E i \in 1..(Len(hay) - Len(needle) + 1) : SubSeq(hay, i, i + Len(needle) - 1) = needle

-----------------------------------------------------------------------------
(* rebuild_records_by_id *)

delimiter == ";"

\* first.replace(U+FEFF, "").strip().strip('"').strip("'")
NormalizeId(tok) ==
    StripChars(StripChars(Strip(RemoveChar(tok, BOM)), {"\""}), {"'"})

Digits == {"0", "1", "2", "3", "4", "5", "6", "7", "8", "9"}

\* RE_BS_ID.match(t): ^BE-\d{3,5}- with re.IGNORECASE
RE_BS_ID(t) ==
    /\ Len(t) >= 3
    /\ Ch(t, 1) \in {"B", "b"}
    /\ Ch(t, 2) \in {"E", "e"}
    /\ Ch(t, 3) = "-"
    /\ \E n \in 3..5 :
          /\ Len(t) >= 3 + n + 1
          /\ \A i \in 4..(3 + n) : Ch(t, i) \in Digits
          /\ Ch(t, 3 + n + 1) = "-"

\* A reassembler that tests the first token against RE_BS_ID
StartsRecordByPattern(first) == RE_BS_ID(first)

\* first.startswith("BE-")
StartsRecord(first) == StartsWith(first, "BE-")

\* A loop body that glues a continuation line on without the space
LoopBodyNoSpace(st, raw) ==
    LET line  == RStripChars(raw, {"\n"})
        first == NormalizeId(SplitFirst(line, delimiter))
    IN  IF Strip(line) = "" THEN st
        ELSE IF StartsWith(first, "BE-")
             THEN [rebuilt |-> IF st.current # None
                               THEN Append(st.rebuilt, st.current[1])
                               ELSE st.rebuilt,
                   current |-> Some(line)]
        ELSE IF st.current = None THEN st
        ELSE [rebuilt |-> st.rebuilt, current |-> Some(st.current[1] \o line)]

\* One iteration of the for loop over the lines after the header: st is
\* [rebuilt, current] before the line raw, the result is the pair after it.
LoopBody(st, raw) ==
    LET line  == RStripChars(raw, {"\n"})
        first == NormalizeId(SplitFirst(line, delimiter))
    IN  IF Strip(line) = "" THEN st
        ELSE IF StartsRecord(first)
             THEN [rebuilt |-> IF st.current # None
                               THEN Append(st.rebuilt, st.current[1])
                               ELSE st.rebuilt,
                   current |-> Some(line)]
        ELSE IF st.current = None THEN st
        ELSE [rebuilt |-> st.rebuilt, current |-> Some(st.current[1] \o " " \o line)]

\* A return that forgets the open record
FlushForgets(st) == st.rebuilt

\* The flush after the loop
Flush(st) == IF st.current # None THEN Append(st.rebuilt, st.current[1]) ELSE st.rebuilt

RECURSIVE LoopFrom(_, _, _)
LoopFrom(st, ls, k) ==
    IF k > Len(ls) THEN st ELSE LoopFrom(LoopBody(st, ls[k]), ls, k + 1)

\* The whole function
rebuild_records_by_id(ls) ==
    LET nonblank == {k \in 1..Len(ls) : Strip(ls[k]) # ""}
    IN  IF nonblank = {} THEN <<>>
        ELSE LET i      == SetMin(nonblank)
                 header == RStripChars(ls[i], {"\n"})
             IN  Flush(LoopFrom([rebuilt |-> <<header>>, current |-> None], ls, i + 1))

-----------------------------------------------------------------------------
(* datetime.strptime, for the directives DT_FORMATS and DATE_ONLY_FORMATS use *)

DT_FORMATS ==
    << "%d-%m-%y %H:%M",
       "%d-%m-%Y %H:%M",
       "%d/%m/%y %H:%M",
       "%d/%m/%Y %H:%M",
       "%Y-%m-%d %H:%M",
       "%Y-%m-%d %H:%M:%S",
       "%d-%m-%Y %H:%M:%S",
       "%d/%m/%Y %H:%M:%S" >>

DATE_ONLY_FORMATS ==
    << "%d-%m-%y",
       "%d-%m-%Y",
       "%d/%m/%y",
       "%d/%m/%Y" >>

DigitValue(c) ==
    CASE c = "0" -> 0 [] c = "1" -> 1 [] c = "2" -> 2 [] c = "3" -> 3 [] c = "4" -> 4
      [] c = "5" -> 5 [] c = "6" -> 6 [] c = "7" -> 7 [] c = "8" -> 8 [] c = "9" -> 9

IsDigits(s, i, n) == i + n - 1 <= Len(s) /\ \A k \in i..(i + n - 1) : Ch(s, k) \in Digits

RECURSIVE Number(_, _, _)
Number(s, i, n) ==
    IF n = 0 THEN 0 ELSE 10 * Number(s, i, n - 1) + DigitValue(Ch(s, i + n - 1))

\* The texts a directive matches at position i of s, as the lengths they may
\* have, the regular expression's first alternative first:
\*   %d  3[0-1]|[1-2]\d|0[1-9]|[1-9]| [1-9]     %m  1[0-2]|0[1-9]|[1-9]
\*   %H  2[0-3]|[0-1]\d|\d                       %M  [0-5]\d|\d
\*   %S  6[0-1]|[0-5]\d|\d                       %y  \d\d        %Y  \d\d\d\d
DirectiveLengths(dir, s, i) ==
    LET two == IF IsDigits(s, i, 2) THEN Number(s, i, 2) ELSE -1
        one == IsDigits(s, i, 1)
        pick(okTwo, okOne) ==
            (IF okTwo THEN <<2>> ELSE <<>>) \o (IF okOne THEN <<1>> ELSE <<>>)
    IN  CASE dir = "d" ->
               IF i + 1 <= Len(s) /\ Ch(s, i) = " " /\ IsDigits(s, i + 1, 1) /\ Ch(s, i + 1) # "0"
               THEN <<2>>
               ELSE pick(two >= 1 /\ two <= 31, one /\ Ch(s, i) # "0")
          [] dir = "m" -> pick(two >= 1 /\ two <= 12, one /\ Ch(s, i) # "0")
          [] dir = "H" -> pick(two >= 0 /\ two <= 23, one)
          [] dir = "M" -> pick(two >= 0 /\ two <= 59, one)
          [] dir = "S" -> pick(two >= 0 /\ two <= 61, one)
          [] dir = "y" -> IF IsDigits(s, i, 2) THEN <<2>> ELSE <<>>
          [] dir = "Y" -> IF IsDigits(s, i, 4) THEN <<4>> ELSE <<>>

\* The number a directive's text stands for (" 5" for %d is 5)
DirectiveValue(s, i, n) ==
    IF Ch(s, i) = " " THEN Number(s, i + 1, n - 1) ELSE Number(s, i, n)

\* The regular expression strptime compiles from fmt, matched against s from
\* position i on, fmt from position j on; got holds the directives read so
\* far.  The result is None when nothing matches, and else the first match in
\* the expression's order: the position after it and the directives' values.
\* a when it is a value, and else b
OrElse(a, b) == IF a # None THEN a ELSE b

RECURSIVE FormatMatch(_, _, _, _, _)
RECURSIVE FirstMatch(_, _, _, _, _, _, _)
FormatMatch(s, i, fmt, j, got) ==
    IF j > Len(fmt) THEN Some([next |-> i, got |-> got])
    ELSE IF Ch(fmt, j) = "%"
         THEN LET dir == Ch(fmt, j + 1)
              IN  FirstMatch(s, i, fmt, j, got, DirectiveLengths(dir, s, i), 1)
    ELSE IF Ch(fmt, j) = " "
         \* a blank of the format is \s+
         THEN LET run == {n \in 1..(Len(s) - i + 1) :
                             \A k \in i..(i + n - 1) : Ch(s, k) \in Whitespace}
              IN  IF run = {} THEN None
                  ELSE FormatMatch(s, i + SetMax(run), fmt, j + 1, got)
    ELSE IF i <= Len(s) /\ Ch(s, i) = Ch(fmt, j)
         THEN FormatMatch(s, i + 1, fmt, j + 1, got)
    ELSE None

FirstMatch(s, i, fmt, j, got, lens, a) ==
    IF a > Len(lens) THEN None
    ELSE OrElse(FormatMatch(s, i + lens[a], fmt, j + 2,
                            [got EXCEPT ![Ch(fmt, j + 1)] = DirectiveValue(s, i, lens[a])]),
                FirstMatch(s, i, fmt, j, got, lens, a + 1))

IsLeap(y) == y % 4 = 0 /\ (y % 100 # 0 \/ y % 400 = 0)

DaysInMonth(y, m) ==
    IF m = 2 THEN (IF IsLeap(y) THEN 29 ELSE 28)
    ELSE IF m \in {4, 6, 9, 11} THEN 30 ELSE 31

\* The datetime of the directives g, None when they name no datetime
DatetimeOf(g, yr) ==
    IF yr < 1 \/ g.d > DaysInMonth(yr, g.m) \/ g.S > 59 THEN None
    ELSE Some([year |-> yr, month |-> g.m, day |-> g.d,
               hour |-> g.H, minute |-> g.M, second |-> g.S])

\* The result of strptime from the match found of its regular expression
FromMatch(s, found) ==
    IF found = None THEN None
    \* "unconverted data remains"
    ELSE IF found[1].next # Len(s) + 1 THEN None
    ELSE DatetimeOf(found[1].got,
                    IF found[1].got.y = -1 THEN found[1].got.Y
                    ELSE IF found[1].got.y <= 68 THEN 2000 + found[1].got.y
                    ELSE 1900 + found[1].got.y)

\* datetime.strptime(s, fmt): None stands for its ValueError.  A datetime
\* is [year, month, day, hour, minute, second].
strptime(s, fmt) ==
    FromMatch(s, FormatMatch(s, 1, fmt, 1,
                             [d |-> 1, m |-> 1, y |-> -1, Y |-> 1900,
                              H |-> 0, M |-> 0, S |-> 0]))

RECURSIVE FirstParse(_, _, _)
FirstParse(s, fmts, k) ==
    IF k > Len(fmts) THEN None
    ELSE OrElse(strptime(s, fmts[k]), FirstParse(s, fmts, k + 1))

\* parse_dt(val): None stands for the ValueError it raises
parse_dt(val) == FirstParse(Strip(val), DT_FORMATS, 1)

\* The text of that ValueError
ParseErrorText(val) == "Date/heure non reconnue: " \o Strip(val)

\* .date() of an Optional[datetime], a date being [year, month, day]
DatePart(dt) ==
    IF dt = None THEN None
    ELSE Some([year |-> dt[1].year, month |-> dt[1].month, day |-> dt[1].day])

\* parse_date_only(val): Optional[date]
parse_date_only(val) == DatePart(FirstParse(Strip(val), DATE_ONLY_FORMATS, 1))

\* in_year(dt, year), dt an Optional[datetime]
in_year(dt, y) == dt # None /\ dt[1].year = y

-----------------------------------------------------------------------------
(* datetime arithmetic *)

\* date.toordinal(): the day's number, 1 for 0001-01-01
DaysBeforeYear(y) == (y - 1) * 365 + (y - 1) \div 4 - (y - 1) \div 100 + (y - 1) \div 400

RECURSIVE DaysBeforeMonth(_, _)
DaysBeforeMonth(y, m) ==
    IF m = 1 THEN 0 ELSE DaysBeforeMonth(y, m - 1) + DaysInMonth(y, m - 1)

ToOrdinal(y, m, d) == DaysBeforeYear(y) + DaysBeforeMonth(y, m) + d

\* the seconds of dt since its midnight
SecondOfDay(dt) == dt.hour * 3600 + dt.minute * 60 + dt.second

\* b - a, a timedelta, in seconds
Minus(b, a) ==
    (ToOrdinal(b.year, b.month, b.day) - ToOrdinal(a.year, a.month, a.day)) * 86400
        + SecondOfDay(b) - SecondOfDay(a)

\* a < b on datetimes
DtLess(a, b) == Minus(a, b) < 0

\* The day after [year, month, day] of dt, time of day kept
NextDay(dt) ==
    IF dt.day < DaysInMonth(dt.year, dt.month) THEN [dt EXCEPT !.day = dt.day + 1]
    ELSE IF dt.month < 12 THEN [dt EXCEPT !.day = 1, !.month = dt.month + 1]
    ELSE [dt EXCEPT !.day = 1, !.month = 1, !.year = dt.year + 1]

\* dt + timedelta(hours=12).  The dates of the inputs are far from
\* datetime.max, where this raises OverflowError.
PlusTwelveHours(dt) ==
    IF dt.hour < 12 THEN [dt EXCEPT !.hour = dt.hour + 12]
    ELSE NextDay([dt EXCEPT !.hour = dt.hour - 12])

Pad2(n) == IF n < 10 THEN "0" \o ToString(n) ELSE ToString(n)

\* str(timedelta(seconds=secs)): [-]D day[s], H:MM:SS
TimedeltaStr(secs) ==
    LET days == IF secs >= 0 THEN secs \div 86400 ELSE -((-secs + 86399) \div 86400)
        rest == secs - days * 86400
        hms  == ToString(rest \div 3600) \o ":" \o Pad2((rest % 3600) \div 60)
                    \o ":" \o Pad2(rest % 60)
    IN  IF days = 0 THEN hms
        ELSE ToString(days) \o (IF days \in {1, -1} THEN " day, " ELSE " days, ") \o hms

\* dt.strftime("%Y-%m-%d %H:%M"), for the four-digit years of the inputs
FormatCorrected(dt) ==
    ToString(dt.year) \o "-" \o Pad2(dt.month) \o "-" \o Pad2(dt.day)
        \o " " \o Pad2(dt.hour) \o ":" \o Pad2(dt.minute)

-----------------------------------------------------------------------------
(* The patterns and the heuristics of the field extractor *)

\* RE_DATE.match(t): ^\d{2}[-/]\d{2}[-/]\d{2,4}$
RE_DATE(t) ==
    /\ Len(t) \in 8..10
    /\ IsDigits(t, 1, 2) /\ Ch(t, 3) \in {"-", "/"}
    /\ IsDigits(t, 4, 2) /\ Ch(t, 6) \in {"-", "/"}
    /\ IsDigits(t, 7, Len(t) - 6)

\* RE_DT.match(t): ^\d{2}[-/]\d{2}[-/]\d{2,4}\s+\d{2}:\d{2}(:\d{2})?$
RE_DT(t) ==
    /\ Len(t) >= 14
    /\ IsDigits(t, 1, 2) /\ Ch(t, 3) \in {"-", "/"}
    /\ IsDigits(t, 4, 2) /\ Ch(t, 6) \in {"-", "/"}
    /\ \E n \in 2..4 : \E w \in 1..(Len(t) - 6 - n) :
          LET p == 7 + n + w
          IN  /\ IsDigits(t, 7, n)
              /\ \A k \in (7 + n)..(p - 1) : Ch(t, k) \in Whitespace
              /\ Len(t) - p + 1 \in {5, 8}
              /\ IsDigits(t, p, 2) /\ Ch(t, p + 2) = ":" /\ IsDigits(t, p + 3, 2)
              /\ Len(t) - p + 1 = 8 => (Ch(t, p + 5) = ":" /\ IsDigits(t, p + 6, 2))

LowerLetters ==
    {"a", "b", "c", "d", "e", "f", "g", "h", "i", "j", "k", "l", "m",
     "n", "o", "p", "q", "r", "s", "t", "u", "v", "w", "x", "y", "z"}

UpperLetters ==
    {"A", "B", "C", "D", "E", "F", "G", "H", "I", "J", "K", "L", "M",
     "N", "O", "P", "Q", "R", "S", "T", "U", "V", "W", "X", "Y", "Z"}

\* c.isalpha(), for the letters the inputs use
IsAlpha(c) == c \in LowerLetters \cup UpperLetters

\* \w
IsWordChar(c) == IsAlpha(c) \/ c \in Digits \/ c = "_"

\* c.lower()
ToLower(c) ==
    IF c \in UpperLetters
    THEN Ch("abcdefghijklmnopqrstuvwxyz",
            CHOOSE k \in 1..26 : Ch("ABCDEFGHIJKLMNOPQRSTUVWXYZ", k) = c)
    ELSE c

\* \b between positions i - 1 and i of t
WordBoundary(t, i) ==
    LET before == i - 1 >= 1 /\ IsWordChar(Ch(t, i - 1))
        after  == i <= Len(t) /\ IsWordChar(Ch(t, i))
    IN  before # after

\* The texts the alternatives of RE_STREET match, in lower case
StreetWords ==
    {"rue", "avenue", "av.", "av", "chaussée", "ch.", "ch", "place", "impasse",
     "allée", "chemin", "route", "sentier", "clos", "quai", "boulevard", "bd.", "bd"}

\* RE_STREET.search(t), with re.IGNORECASE
RE_STREET(t) ==
    \E i \in 1..Len(t) : \E word \in StreetWords :
        /\ i + Len(word) - 1 <= Len(t)
        /\ \A k \in 1..Len(word) : ToLower(Ch(t, i + k - 1)) = Ch(word, k)
        /\ WordBoundary(t, i)
        /\ WordBoundary(t, i + Len(word))

\* is_empty(v), v an Optional[str]
is_empty(v) == v = None \/ Strip(v[1]) = ""

\* lines 76-77, t the stripped text
IsIdText(t) == StartsWith(t, "BE-") \/ RE_BS_ID(t)

\* looks_like_betterstreet_id(v), v a str
looks_like_betterstreet_id(v) == IsIdText(Strip(v))

\* lines 86-99, t the stripped text
IsAddressText(t) ==
    /\ Len(t) >= 10
    /\ ~looks_like_betterstreet_id(t)
    /\ \E i \in 1..Len(t) : IsAlpha(Ch(t, i))
    /\ RE_STREET(t)
    /\ \E i \in 1..Len(t) : Ch(t, i) \in Digits

\* looks_like_address(v), v a str
looks_like_address(v) == IsAddressText(Strip(v))

-----------------------------------------------------------------------------
(* extract_fields *)

\* f.get(k): Optional[str]
Get(f, k) == IF k \in DOMAIN f THEN f[k] ELSE None

\* f[k] = v
Put(f, k, v) == [x \in DOMAIN f \cup {k} |-> IF x = k THEN v ELSE f[x]]

\* t or None
OrNone(t) == IF t = "" THEN None ELSE Some(t)

\* not f.get(k)
Falsy(f, k) == Get(f, k) = None \/ Get(f, k) = Some("")

\* [t.strip() for t in raw]
StripAll(raw) == [i \in 1..Len(raw) |-> Strip(raw[i])]

\* [t.strip() for t in record_line.split(delimiter)]
Tokens(rec) == StripAll(Split(rec, delimiter))

\* An aligned mapping whose ID is overwritten by the normalised id, as the
\* fallback does
AlignedFieldsWithRid(toks, cols) ==
    LET last(k) == SetMax({i \in 1..Len(cols) : cols[i] = k})
    IN  [k \in {cols[i] : i \in 1..Len(cols)} \cup {"ID"} |->
            IF k = "ID" THEN Some(NormalizeId(toks[1])) ELSE OrNone(toks[last(k)])]

\* lines 200-202: dict(zip(header_cols, toks)), "" made None.  In a dict a
\* name that comes twice keeps the value of its last place.
AlignedFields(toks, cols) ==
    LET last(k) == SetMax({i \in 1..Len(cols) : cols[i] = k})
    IN  [k \in {cols[i] : i \in 1..Len(cols)} |-> OrNone(toks[last(k)])]

RECURSIVE Sorted(_)
Sorted(S) == IF S = {} THEN <<>> ELSE <<SetMin(S)>> \o Sorted(S \ {SetMin(S)})

\* line 206: the places, in ascending order, of the date-time tokens.  Places
\* count from 1 (the code's index plus one) and 0 stands for None.
dt_idxs(toks) == Sorted({i \in 1..Len(toks) : toks[i] # "" /\ RE_DT(toks[i])})

\* line 209: the places of the date tokens
date_idxs(toks) == Sorted({i \in 1..Len(toks) : toks[i] # "" /\ RE_DATE(toks[i])})

\* (idxs[-2], idxs[-1]) if len(idxs) >= 2 else (None, None)
LastTwo(idxs) ==
    IF Len(idxs) >= 2 THEN <<idxs[Len(idxs) - 1], idxs[Len(idxs)]>> ELSE <<0, 0>>

\* (idxs[0], idxs[1]) if len(idxs) >= 2 else (None, None)
FirstTwo(idxs) == IF Len(idxs) >= 2 THEN <<idxs[1], idxs[2]>> ELSE <<0, 0>>

\* [i for i in idxs if i < bound]
Below(idxs, bound) == SelectSeq(idxs, LAMBDA i : i < bound)

\* lines 247-251
AgentsIdx(n, end_idx, echeance_idx) ==
    IF end_idx # 0 /\ end_idx + 1 <= n THEN end_idx + 1
    ELSE IF echeance_idx # 0 /\ echeance_idx + 3 <= n THEN echeance_idx + 3
    ELSE 0

\* The anchors from the pair (start_idx, end_idx) and the pair (created_idx,
\* echeance_idx)
AnchorsOf(n, se, ce) ==
    [start_idx |-> se[1], end_idx |-> se[2],
     created_idx |-> ce[1], echeance_idx |-> ce[2],
     agents_idx |-> AgentsIdx(n, se[2], ce[2])]

\* lines 210-217
DateAnchors(se, dates) ==
    IF se[1] # 0 THEN LastTwo(Below(dates, se[1])) ELSE FirstTwo(dates)

\* lines 206-217 and 247-251: the anchors of a broken record
Anchors(toks) ==
    AnchorsOf(Len(toks), LastTwo(dt_idxs(toks)),
              DateAnchors(LastTwo(dt_idxs(toks)), date_idxs(toks)))

\* an anchor-free token: no id, no address, no date
PlainText(t) ==
    ~(looks_like_betterstreet_id(t) \/ looks_like_address(t) \/ RE_DATE(t) \/ RE_DT(t))

\* lines 219-220
InitialFields(cols, rid) ==
    Put([k \in {cols[i] : i \in 1..Len(cols)} |-> None], "ID", Some(rid))

\* f[k] = toks[idx] or None, when idx is not None
PutToken(f, k, toks, idx) == IF idx # 0 THEN Put(f, k, OrNone(toks[idx])) ELSE f

\* lines 225-228, cand the stripped token before created_idx
PutCategorie(f, created_idx, cand) ==
    IF created_idx >= 3 /\ cand # "" /\ ~RE_DATE(cand) /\ ~RE_DT(cand)
    THEN Put(f, "Catégorie", Some(cand)) ELSE f

\* lines 229-236
PutDescription(f, toks, created_idx) ==
    IF created_idx > 3
    THEN Put(f, "Description", OrNone(Strip(Join(SubSeq(toks, 2, created_idx - 2), ";"))))
    ELSE IF Len(toks) > 1 THEN Put(f, "Description", OrNone(Strip(toks[2])))
    ELSE f

\* lines 259-262, addr_i a place of toks or 0
PutAdresseAt(f, toks, addr_i) ==
    IF addr_i >= 1 /\ Strip(toks[addr_i]) # "" /\ looks_like_address(Strip(toks[addr_i]))
    THEN Put(f, "Adresse", Some(Strip(toks[addr_i]))) ELSE f

\* lines 263-266, bat_i a place of toks or less
PutBatimentAt(f, toks, bat_i) ==
    IF bat_i >= 1 /\ Strip(toks[bat_i]) # "" /\ PlainText(Strip(toks[bat_i]))
    THEN Put(f, "Bâtiment/Équipement", Some(Strip(toks[bat_i]))) ELSE f

\* lines 256-266
AroundEcheance(f, toks, echeance_idx) ==
    IF echeance_idx # 0
    THEN PutBatimentAt(PutAdresseAt(f, toks, echeance_idx - 1), toks, echeance_idx - 2)
    ELSE f

\* lines 268-272, addrs the places of the tokens that look like an address
ScanAdresse(f, toks, addrs) ==
    IF Falsy(f, "Adresse") /\ addrs # {}
    THEN Put(f, "Adresse", Some(Strip(toks[SetMin(addrs)]))) ELSE f

\* lines 284 and 300: f.get("Description") and t == f["Description"]
IsDescription(f, t) == ~Falsy(f, "Description") /\ Some(t) = Get(f, "Description")

\* lines 279-285 and 295-301: a token the two last scans take
Significant(f, tok) ==
    Strip(tok) # "" /\ PlainText(Strip(tok)) /\ ~IsDescription(f, Strip(tok))

\* lines 277-287, addr_pos the places of the tokens equal to the address
BatimentBefore(f, toks, addr_pos) ==
    IF addr_pos = {} THEN {}
    ELSE {j \in 1..Len(toks) :
            /\ j <= SetMin(addr_pos) - 1
            /\ j >= SetMin(addr_pos) - 7
            /\ Significant(f, toks[j])}

PutLast(f, k, toks, places) ==
    IF places # {} THEN Put(f, k, Some(Strip(toks[SetMax(places)]))) ELSE f

\* lines 275-289
ScanBatiment(f, toks) ==
    IF Falsy(f, "Bâtiment/Équipement") /\ ~Falsy(f, "Adresse")
    THEN PutLast(f, "Bâtiment/Équipement", toks,
                 BatimentBefore(f, toks,
                     {i \in 1..Len(toks) : Strip(toks[i]) = Strip(Get(f, "Adresse")[1])}))
    ELSE f

\* lines 292-303
ScanConsigne(f, toks, agents_idx) ==
    IF agents_idx # 0
    THEN PutLast(f, "Consigne", toks,
                 {j \in (agents_idx + 1)..Len(toks) : Significant(f, toks[j])})
    ELSE f

\* lines 222-236
CreatedFields(f, toks, a) ==
    IF a.created_idx # 0
    THEN PutDescription(
             PutCategorie(PutToken(f, "Créé le", toks, a.created_idx), a.created_idx,
                          IF a.created_idx >= 3 THEN Strip(toks[a.created_idx - 1]) ELSE ""),
             toks, a.created_idx)
    ELSE PutDescription(f, toks, 0)

\* lines 238-253
AnchoredFields(f, toks, a) ==
    PutToken(PutToken(PutToken(PutToken(f,
        "Échéance", toks, a.echeance_idx),
        "Début planification", toks, a.start_idx),
        "Fin planification", toks, a.end_idx),
        "Agents/Équipes", toks, a.agents_idx)

\* lines 219-303, from the anchors a
FieldsFrom(toks, cols, rid, a) ==
    ScanConsigne(
        ScanBatiment(
            ScanAdresse(
                AroundEcheance(
                    AnchoredFields(CreatedFields(InitialFields(cols, rid), toks, a), toks, a),
                    toks, a.echeance_idx),
                toks, {i \in 1..Len(toks) : looks_like_address(toks[i])}),
            toks),
        toks, a.agents_idx)

\* A fallback that keeps the first token as it stands for the ID
HeuristicFieldsRawId(toks, cols, rid) == FieldsFrom(toks, cols, toks[1], Anchors(toks))

\* lines 205-303: the fields found from the anchors
HeuristicFields(toks, cols, rid) == FieldsFrom(toks, cols, rid, Anchors(toks))

\* lines 194-305, from the tokens
ExtractFrom(toks, cols, rid) ==
    IF ~StartsWith(rid, "BE-") THEN None
    ELSE IF Len(toks) = Len(cols)
         THEN Some([fields |-> AlignedFields(toks, cols), aligned |-> TRUE])
    ELSE Some([fields |-> HeuristicFields(toks, cols, rid), aligned |-> FALSE])

\* extract_fields(record_line, header_cols): Optional[ExtractResult]
extract_fields(rec, cols) == ExtractFrom(Tokens(rec), cols, NormalizeId(Tokens(rec)[1]))

-----------------------------------------------------------------------------
(* The reassembler as a state machine: SpecRebuild *)

MaxLines == 4

\* The physical lines the inputs are made of: blank lines, a header, lines
\* that start a record (plain, quoted, behind a byte-order mark, without
\* digits), lines that do not (lower case, the id not in front, free text),
\* with and without their line terminator.
LinePool ==
    { " \n",
      "ID;Description\n",
      "BE-1001-;fuite\n", " \"BE-1002-\" ;toit", "^'BE-1003-;a;b\r\n",
      "BE-;x\n",
      "be-1234-;porte\n", "suite;BE-1005-\n" }

RECURSIVE SeqsUpTo(_, _)
SeqsUpTo(S, n) ==
    IF n = 0 THEN {<<>>}
    ELSE LET shorter == SeqsUpTo(S, n - 1)
         IN  shorter \cup {Append(q, x) : q \in {r \in shorter : Len(r) = n - 1}, x \in S}

\* The parts of the state a specification does not use stay as they are here
RbIdle ==
    lines = <<>> /\ rb_pc = "idle" /\ rb_i = 1 /\ rebuilt = <<>> /\ current = None

ExIdle ==
    ex_record_line = "" /\ ex_header_cols = <<>> /\ ex_pc = "idle" /\ ex_result = None

NoLocals ==
    [ex |-> None, start_raw |-> None, end_raw |-> None, created_raw |-> None,
     agents_equipes |-> None, start_dt |-> None, end_dt |-> None,
     created_date |-> None, notes |-> <<>>, keep |-> FALSE,
     end_dt_corrected |-> None, duration_td |-> None, duration_str |-> None,
     notes_joined |-> ""]

MainIdle ==
    /\ raw_lines = <<>> /\ year = 0 /\ pc = "idle" /\ rebuilt_lines = <<>>
    /\ header_cols = <<>> /\ ri = 2 /\ it = NoLocals
    /\ records = <<>> /\ anomalies = <<>>
    /\ kept = 0 /\ skipped_other_year = 0 /\ aligned_count = 0 /\ broken_count = 0

RbInit ==
    /\ lines \in SeqsUpTo(LinePool, MaxLines)
    /\ rb_pc = "scan"
    /\ rb_i = 1
    /\ rebuilt = <<>>
    /\ current = None
    /\ ExIdle /\ MainIdle

\* lines 144-154: the empty list, the leading blank lines, the header
RbScan ==
    /\ rb_pc = "scan"
    /\ IF rb_i > Len(lines)
       THEN /\ rb_pc' = "done"
            /\ UNCHANGED <<rb_i, rebuilt>>
       ELSE IF Strip(lines[rb_i]) = ""
       THEN /\ rb_i' = rb_i + 1
            /\ UNCHANGED <<rb_pc, rebuilt>>
       ELSE /\ rebuilt' = <<RStripChars(lines[rb_i], {"\n"})>>
            /\ rb_i' = rb_i + 1
            /\ rb_pc' = "loop"
    /\ UNCHANGED <<lines, current>>
    /\ UNCHANGED <<ex_vars, main_vars>>

\* lines 157-172: one line of the for loop
RbLine ==
    /\ rb_pc = "loop"
    /\ rb_i <= Len(lines)
    /\ \E st \in {LoopBody([rebuilt |-> rebuilt, current |-> current], lines[rb_i])} :
          /\ rebuilt' = st.rebuilt
          /\ current' = st.current
    /\ rb_i' = rb_i + 1
    /\ UNCHANGED <<lines, rb_pc>>
    /\ UNCHANGED <<ex_vars, main_vars>>

\* lines 174-177: the last flush and the return
RbReturn ==
    /\ rb_pc = "loop"
    /\ rb_i > Len(lines)
    /\ rebuilt' = Flush([rebuilt |-> rebuilt, current |-> current])
    /\ rb_pc' = "done"
    /\ UNCHANGED <<lines, rb_i, current>>
    /\ UNCHANGED <<ex_vars, main_vars>>

RbNext == RbScan \/ RbLine \/ RbReturn

SpecRebuild == RbInit /\ [][RbNext]_vars

-----------------------------------------------------------------------------
(* extract_fields called on its own: SpecExtract *)

ExHeaderPool ==
    { <<"ID", "Description", "Début planification", "Fin planification", "Agents/Équipes">>,
      <<"ID", "Description", "", "">>,
      <<"Ref", "ID", "Ref">>,
      <<"ID", "Description">> }

\* Records of two to seven tokens: the id plain, quoted, behind a byte-order
\* mark or in lower case, tokens that are empty or padded with blanks, and
\* date-times written day first and year first
ExRecordPool ==
    { id \o rest :
        id \in {"BE-1001-", "\"BE-1002-\"", "^ BE-1003-", "be-1234-"},
        rest \in { ";Fuite",
                   "; toit ;",
                   ";; a ;",
                   ";Fuite;15-03-25 07:30;;Equipe A",
                   ";Fuite;15-03-25;20-03-25;15-03-25 07:30;15-03-25 19:45",
                   ";Fuite;15-03-25;20-03-25;2025-03-15 07:30;2025-03-15 19:45",
                   ";Fuite;15-03-25 07:30;15-03-25 19:45;2025-03-16 08:00;Equipe A" } }

ExInit ==
    /\ ex_record_line \in ExRecordPool
    /\ ex_header_cols \in ExHeaderPool
    /\ ex_pc = "call"
    /\ ex_result = None
    /\ RbIdle /\ MainIdle

Extract ==
    /\ ex_pc = "call"
    /\ ex_result' = extract_fields(ex_record_line, ex_header_cols)
    /\ ex_pc' = "returned"
    /\ UNCHANGED <<ex_record_line, ex_header_cols>>
    /\ UNCHANGED <<rb_vars, main_vars>>

ExNext == Extract

SpecExtract == ExInit /\ [][ExNext]_vars

-----------------------------------------------------------------------------
(* main, from the lines of the file to the end of the loop over the records *)

\* A test that also fails a file with a header and no record
NoRecordRebuilt(rl) == Len(rl) <= 1

\* line 329: not rebuilt_lines
NoLineRebuilt(rl) == rl = <<>>

\* An anomaly test that leaves the +12h note out
IsAnomalyWithoutShift(notes_joined) ==
    \/ Contains(notes_joined, "parse error")
    \/ Contains(notes_joined, "missing")
    \/ Contains(notes_joined, "Duration still negative")

\* lines 421-426
IsAnomaly(notes_joined) ==
    \/ Contains(notes_joined, "parse error")
    \/ Contains(notes_joined, "missing")
    \/ Contains(notes_joined, "End time shifted +12h")
    \/ Contains(notes_joined, "Duration still negative")

\* A shift that forgets to carry into the next day
PlusTwelveHoursSameDay(dt) == [dt EXCEPT !.hour = (dt.hour + 12) % 24]

\* line 407: end_dt + timedelta(hours=12)
ShiftedEnd(end_dt) == PlusTwelveHours(end_dt)

\* A year filter that looks at the start alone
PlannedInYearByStart(start_dt, end_dt, y) == in_year(start_dt, y)

\* line 393
PlannedInYear(start_dt, end_dt, y) == in_year(start_dt, y) \/ in_year(end_dt, y)

DateOf(dt) == [year |-> dt.year, month |-> dt.month, day |-> dt.day]

TimeOf(dt) == [hour |-> dt.hour, minute |-> dt.minute, second |-> dt.second]

\* lines 359-362: the raw fields
ReadFields(f, old) ==
    [old EXCEPT !.start_raw = Get(f, "Début planification"),
                !.end_raw = Get(f, "Fin planification"),
                !.created_raw = Get(f, "Créé le"),
                !.agents_equipes = Get(f, "Agents/Équipes")]

\* lines 364-382: the three dates; a parse error leaves None
ParseDates(loc) ==
    [loc EXCEPT !.start_dt = IF is_empty(loc.start_raw) THEN None
                             ELSE parse_dt(loc.start_raw[1]),
                !.end_dt = IF is_empty(loc.end_raw) THEN None
                           ELSE parse_dt(loc.end_raw[1]),
                !.created_date = IF is_empty(loc.created_raw) THEN None
                                 ELSE parse_date_only(loc.created_raw[1])]

\* lines 370-389: the notes, in the order the code appends them
FirstNotes(loc) ==
    [loc EXCEPT !.notes =
        (IF ~is_empty(loc.start_raw) /\ loc.start_dt = None
         THEN <<"Start parse error: " \o ParseErrorText(loc.start_raw[1])>> ELSE <<>>)
        \o (IF ~is_empty(loc.end_raw) /\ loc.end_dt = None
            THEN <<"End parse error: " \o ParseErrorText(loc.end_raw[1])>> ELSE <<>>)
        \o (IF loc.start_dt = None THEN <<"Start missing">> ELSE <<>>)
        \o (IF loc.end_dt = None THEN <<"End missing">> ELSE <<>>)
        \o (IF is_empty(loc.agents_equipes) THEN <<"Agents/Équipes missing">> ELSE <<>>)]

\* lines 392-400: keep is FALSE where the code continues
YearFilter(loc, y) ==
    [loc EXCEPT !.keep =
        IF loc.start_dt # None \/ loc.end_dt # None
        THEN PlannedInYear(loc.start_dt, loc.end_dt, y)
        ELSE loc.created_date # None /\ loc.created_date[1].year = y]

\* lines 359-400: the loop body of main from the extracted fields f to the
\* year filter; the result holds the local variables it sets.
Parsed(f, y, old) == YearFilter(FirstNotes(ParseDates(ReadFields(f, old))), y)

\* lines 405-408
Shift(loc) ==
    IF loc.start_dt # None /\ loc.end_dt # None /\ DtLess(loc.end_dt[1], loc.start_dt[1])
    THEN [loc EXCEPT !.end_dt_corrected = Some(ShiftedEnd(loc.end_dt[1])),
                     !.notes = Append(loc.notes,
                                      "End time shifted +12h (12h ambiguity forced)")]
    ELSE [loc EXCEPT !.end_dt_corrected = loc.end_dt]

\* lines 410-413
Duration(loc) ==
    IF loc.start_dt # None /\ loc.end_dt_corrected # None
    THEN [loc EXCEPT !.duration_td = Some(Minus(loc.end_dt_corrected[1], loc.start_dt[1]))]
    ELSE [loc EXCEPT !.duration_td = None]

\* lines 414-416
LastNotes(loc) ==
    IF loc.duration_td # None
    THEN [loc EXCEPT !.duration_str = Some(TimedeltaStr(loc.duration_td[1])),
                     !.notes = IF loc.duration_td[1] < 0
                               THEN Append(loc.notes,
                                           "Duration still negative after correction")
                               ELSE loc.notes]
    ELSE [loc EXCEPT !.duration_str = None]

\* line 418
JoinNotes(loc) == [loc EXCEPT !.notes_joined = Join(loc.notes, " | ")]

\* lines 404-418: the 12-hour correction, the duration and the joined notes
\* of a record the filter kept
Corrected(loc) == JoinNotes(LastNotes(Duration(Shift(loc))))

\* lines 427-434
AnomalyEntry(f, loc) ==
    ("ID" :> Get(f, "ID"))
    @@ ("Début planification (raw)" :> loc.start_raw)
    @@ ("Fin planification (raw)" :> loc.end_raw)
    @@ ("Fin planification (corrigée)" :>
            IF loc.end_dt_corrected # None
            THEN Some(FormatCorrected(loc.end_dt_corrected[1])) ELSE None)
    @@ ("Durée (corrigée)" :>
            IF loc.duration_td # None THEN Some(TimedeltaStr(loc.duration_td[1])) ELSE None)
    @@ ("Notes" :> loc.notes_joined)

\* lines 436-449
PlanningRecord(f, loc) ==
    ("ID" :> Get(f, "ID"))
    @@ ("Description" :> Get(f, "Description"))
    @@ ("Catégorie" :> Get(f, "Catégorie"))
    @@ ("Bâtiment/Équipement" :> Get(f, "Bâtiment/Équipement"))
    @@ ("Adresse" :> Get(f, "Adresse"))
    @@ ("Date Début planification" :>
            IF loc.start_dt # None THEN Some(DateOf(loc.start_dt[1])) ELSE None)
    @@ ("Heure Début planification" :>
            IF loc.start_dt # None THEN Some(TimeOf(loc.start_dt[1])) ELSE None)
    @@ ("Date Fin planification" :>
            IF loc.end_dt_corrected # None THEN Some(DateOf(loc.end_dt_corrected[1])) ELSE None)
    @@ ("Heure Fin planification" :>
            IF loc.end_dt_corrected # None THEN Some(TimeOf(loc.end_dt_corrected[1])) ELSE None)
    @@ ("Consigne" :> Get(f, "Consigne"))
    @@ ("Agents/Équipes" :> loc.agents_equipes)
    @@ ("Durée" :> loc.duration_str)

MaxRecords == 2

Years == {2025, 2026}

HeaderLinePool ==
    { "ID;Description;Créé le;Début planification;Fin planification;Agents/Équipes\n",
      "Ref;Description;Créé le;Début planification;Fin planification;Agents/Équipes\n" }

\* A physical line of six tokens, as the export writes a record
Row(id, created, start, end, agents) ==
    id \o ";desc;" \o created \o ";" \o start \o ";" \o end \o ";" \o agents \o "\n"

\* The physical lines after the header: records with a planning window (in
\* order, in reverse order within a day, across midnight of 31 December, a
\* day and more before the start, across the new year, with a missing or
\* unparseable side), records without one or with one that does not parse,
\* with and without a created date that parses, ids that are quoted or have
\* no digits, records broken into more or fewer tokens than the header, a
\* line that starts no record, a blank line.
MainLinePool ==
    { Row("BE-1001-", "15-03-24", "15-03-25 07:30", "15-03-25 19:45", "Equipe A"),
      Row("BE-1002-", "15-03-24", "15-03-2025 14:00", "15-03-2025 02:00", "Equipe A"),
      Row("BE-1003-", "15-03-24", "31-12-25 14:00", "31-12-25 13:00", "Equipe A"),
      Row("BE-1004-", "15-03-24", "02-01-26 08:00", "31-12-25 09:00", "Equipe A"),
      Row("BE-1005-", "15-03-24", "31-12-25 22:00", "01-01-26 06:00", "Equipe A"),
      Row("BE-1006-", "15-03-24", "", "15/03/25 19:45", "Equipe A"),
      Row("BE-1007-", "15-03-24", "2025-03-15 07:30:00", "15-03-25 7h30", "Equipe A"),
      Row("BE-1009-", "15-03-24", "15-03-25 07:30", "15-03-25 19:45", " "),
      Row("BE-1010-", "15-03-25", "", "", "Equipe A"),
      Row("BE-1012-", "mars 2025", "", "", "Equipe A"),
      Row("\"BE-1014-\"", "15-03-24", "15-03-25 07:30", "15-03-25 19:45", "Equipe A"),
      Row("BE-", "15-03-25", "", "", "Equipe A"),
      Row("BE-1015-", "15-03-25", "demain", "15-03-25 25:00", "Equipe A"),
      "^'BE-2002-';Fuite;x;15-03-25;20-03-25;31-12-25 22:00;01-01-26 06:00\n",
      "BE-2003-;desc;15-03-25;20-03-25\n",
      "be-1234-;desc;15-03-25;;;Equipe A\n",
      " \n" }

MainInputs ==
    {<<>>, <<" \n">>}
        \cup {<<h>> \o body : h \in HeaderLinePool, body \in SeqsUpTo(MainLinePool, MaxRecords)}

Init ==
    /\ raw_lines \in MainInputs
    /\ year \in Years
    /\ pc = "start"
    /\ rebuilt_lines = <<>>
    /\ header_cols = <<>>
    /\ ri = 2
    /\ it = NoLocals
    /\ records = <<>>
    /\ anomalies = <<>>
    /\ kept = 0
    /\ skipped_other_year = 0
    /\ aligned_count = 0
    /\ broken_count = 0
    /\ RbIdle /\ ExIdle

\* lines 326-333: the reassembly, the error on an empty result, the header
Rebuild ==
    /\ pc = "start"
    /\ rebuilt_lines' = rebuild_records_by_id(raw_lines)
    /\ IF NoLineRebuilt(rebuilt_lines')
       THEN \* raise ValueError
            /\ pc' = "error"
            /\ UNCHANGED header_cols
       ELSE /\ header_cols' = Tokens(rebuilt_lines'[1])
            /\ pc' = "loop"
    /\ UNCHANGED <<raw_lines, year, ri, it, records, anomalies, kept,
                   skipped_other_year, aligned_count, broken_count>>
    /\ UNCHANGED <<rb_vars, ex_vars>>

\* lines 349-449: one turn of the loop over rebuilt_lines[1:]
ProcessRecord ==
    /\ pc = "loop"
    /\ ri <= Len(rebuilt_lines)
    /\ ri' = ri + 1
    /\ \E ex \in {extract_fields(rebuilt_lines[ri], header_cols)} :
          IF ex = None
          THEN \* continue
               /\ it' = [it EXCEPT !.ex = None]
               /\ UNCHANGED <<records, anomalies, kept, skipped_other_year,
                              aligned_count, broken_count>>
          ELSE \E loc \in {Parsed(ex[1].fields, year, [it EXCEPT !.ex = ex])} :
                  /\ aligned_count' = IF ex[1].aligned THEN aligned_count + 1
                                      ELSE aligned_count
                  /\ broken_count' = IF ex[1].aligned THEN broken_count
                                     ELSE broken_count + 1
                  /\ IF ~loc.keep
                     THEN \* continue
                          /\ it' = loc
                          /\ skipped_other_year' = skipped_other_year + 1
                          /\ UNCHANGED <<records, anomalies, kept>>
                     ELSE \E fin \in {Corrected(loc)} :
                             /\ it' = fin
                             /\ kept' = kept + 1
                             /\ anomalies' =
                                    IF IsAnomaly(fin.notes_joined)
                                    THEN Append(anomalies, AnomalyEntry(ex[1].fields, fin))
                                    ELSE anomalies
                             /\ records' = Append(records, PlanningRecord(ex[1].fields, fin))
                             /\ UNCHANGED skipped_other_year
    /\ UNCHANGED <<raw_lines, year, pc, rebuilt_lines, header_cols>>
    /\ UNCHANGED <<rb_vars, ex_vars>>

\* line 451: the loop is over, the report is assembled from records and
\* anomalies
Report ==
    /\ pc = "loop"
    /\ ri > Len(rebuilt_lines)
    /\ pc' = "report"
    /\ UNCHANGED <<raw_lines, year, rebuilt_lines, header_cols, ri, it, records,
                   anomalies, kept, skipped_other_year, aligned_count, broken_count>>
    /\ UNCHANGED <<rb_vars, ex_vars>>

Next == Rebuild \/ ProcessRecord \/ Report

Spec == Init /\ [][Next]_vars

-----------------------------------------------------------------------------
(* Properties of the reassembler *)

\* A physical line without its line feed
LineText(l) == RStripChars(l, {"\n"})

\* The first delimiter-separated token of a line, without byte-order mark,
\* surrounding blanks and surrounding quotes
FirstToken(l) == NormalizeId(SplitFirst(LineText(l), ";"))

NonBlank(ls) == {k \in 1..Len(ls) : Strip(ls[k]) # ""}

\* A non-blank line whose first token begins with the letters BE-
HasIdPrefix(l) == Strip(l) # "" /\ StartsWith(FirstToken(l), "BE-")

\* A non-blank line whose first token matches the record-id pattern
MatchesIdPattern(l) == Strip(l) # "" /\ RE_BS_ID(FirstToken(l))

RECURSIVE Ascending(_)
Ascending(S) == IF S = {} THEN <<>> ELSE <<SetMin(S)>> \o Ascending(S \ {SetMin(S)})

\* The records opened so far, oldest first: the flushed ones and the open one
OpenedRecords ==
    (IF rebuilt = <<>> THEN <<>> ELSE Tail(rebuilt))
        \o (IF current # None /\ rb_pc # "done" THEN <<current[1]>> ELSE <<>>)

\* After each line read, the records opened so far are exactly the lines read
\* whose place is in S, in order, each record beginning with its line.
OpensExactlyOn(S) ==
    rebuilt # <<>> =>
        LET h      == SetMin(NonBlank(lines))
            starts == Ascending({k \in (h + 1)..(rb_i - 1) : k \in S})
        IN  /\ Len(OpenedRecords) = Len(starts)
            /\ \A j \in 1..Len(starts) :
                  StartsWith(OpenedRecords[j], LineText(lines[starts[j]]))

\* C9, as claimed: a line after the header opens a new record if and only if
\* its first token matches the record-id pattern, case-insensitive BE-, then
\* digits, then a separator.
C9_StartIffIdPattern ==
    OpensExactlyOn({k \in 1..Len(lines) : MatchesIdPattern(lines[k])})

\* C9, amended: a non-blank line after the header opens a new record if and
\* only if its first token, without byte-order mark, blanks and quotes, begins
\* with the upper-case letters BE- ; digits are not required and be- does not
\* count.
C9_StartIffBEPrefix ==
    OpensExactlyOn({k \in 1..Len(lines) : HasIdPrefix(lines[k])})

\* C9 witness: both a BE- line without digits (it opened a record) and a
\* be-1234- line (it did not) have been read.
C9_Witness ==
    /\ rb_pc = "done"
    /\ rebuilt # <<>>
    /\ LET after == (SetMin(NonBlank(lines)) + 1)..Len(lines)
       IN  /\ \E k \in after : HasIdPrefix(lines[k]) /\ ~MatchesIdPattern(lines[k])
           /\ \E k \in after : MatchesIdPattern(lines[k]) /\ ~HasIdPrefix(lines[k])

\* What the reassembler is to return for the lines ls
ExpectedRebuilt(ls) ==
    IF NonBlank(ls) = {} THEN <<>>
    ELSE LET h         == SetMin(NonBlank(ls))
             starts    == Ascending({k \in NonBlank(ls) : k > h /\ HasIdPrefix(ls[k])})
             last(j)   == IF j < Len(starts) THEN starts[j + 1] - 1 ELSE Len(ls)
             parts(j)  == Ascending({k \in NonBlank(ls) : starts[j] <= k /\ k <= last(j)})
             record(j) == Join([m \in 1..Len(parts(j)) |-> LineText(ls[parts(j)[m]])], " ")
         IN  <<LineText(ls[h])>> \o [j \in 1..Len(starts) |-> record(j)]

\* C10: the first non-blank line is the header, untouched; each record is
\* its record-start line followed, after one space each and in input order,
\* by the non-blank lines up to the next record start; non-blank lines before
\* the first record start and blank lines are dropped; there is one record
\* per record-start line, in order, the last one included.
C10_LineAccounting == rb_pc = "done" => rebuilt = ExpectedRebuilt(lines)

\* C10 witness: a line was dropped before the first record, and a record was
\* continued across a blank line.
C10_Witness ==
    /\ rb_pc = "done"
    /\ Len(lines) = 4
    /\ Strip(lines[1]) # ""
    /\ Strip(lines[2]) # "" /\ ~HasIdPrefix(lines[2])
    /\ HasIdPrefix(lines[3])
    /\ Strip(lines[4]) # "" /\ ~HasIdPrefix(lines[4])
    /\ rebuilt = <<LineText(lines[1]), LineText(lines[3]) \o " " \o LineText(lines[4])>>

\* Every line after the header starts a record
WellFormed(ls) ==
    /\ NonBlank(ls) # {}
    /\ \A k \in (SetMin(NonBlank(ls)) + 1)..Len(ls) : HasIdPrefix(ls[k])

\* Every line after the header has a first token that matches the record-id
\* pattern
WellFormedByPattern(ls) ==
    /\ NonBlank(ls) # {}
    /\ \A k \in (SetMin(NonBlank(ls)) + 1)..Len(ls) : MatchesIdPattern(ls[k])

\* The header and then one record per line, in order, each the text of its
\* line, and reassembling that result again returns it unchanged
OneRecordPerLine ==
    LET h == SetMin(NonBlank(lines))
    IN  /\ rebuilt = [j \in 1..(Len(lines) - h + 1) |-> LineText(lines[h + j - 1])]
        /\ rebuild_records_by_id(rebuilt) = rebuilt

\* C2, as claimed: when every line after the header starts with a valid id,
\* one that matches the record-id pattern, the result is the header and then
\* one record per line, unchanged, and reassembling it again changes nothing.
C2_IdempotentOnPatternIds == (rb_pc = "done" /\ WellFormedByPattern(lines)) => OneRecordPerLine

\* C2, amended: when every line after the header starts with an id the
\* reassembler accepts (first token, without byte-order mark, blanks and
\* quotes, beginning with the upper-case letters BE-), the result is the
\* header and then one record per line, in order, each the text of its line,
\* and reassembling the result again returns it unchanged.
C2_Idempotent == (rb_pc = "done" /\ WellFormed(lines)) => OneRecordPerLine

\* C2 witness: a header and at least two record lines went through
C2_Witness == rb_pc = "done" /\ WellFormed(lines) /\ Len(rebuilt) >= 3

-----------------------------------------------------------------------------
(* Properties of extract_fields on a record with as many tokens as the header *)

\* Token i of a record: the text between two delimiters, stripped
TokenOf(rec, i) == Strip(Split(rec, ";")[i])

\* The record has as many tokens as the header has columns
SameCount == Len(Split(ex_record_line, ";")) = Len(ex_header_cols)

\* The first token without byte-order mark, blanks and quotes
RecordId == NormalizeId(TokenOf(ex_record_line, 1))

\* The result is tagged aligned, its fields are the header's names, and the
\* field of column i holds the token at place At(i), "" made absent
AlignedResult(at) ==
    /\ ex_result # None
    /\ ex_result[1].aligned = TRUE
    /\ DOMAIN ex_result[1].fields = {ex_header_cols[i] : i \in 1..Len(ex_header_cols)}
    /\ \A i \in 1..Len(ex_header_cols) :
          ex_result[1].fields[ex_header_cols[i]] = OrNone(TokenOf(ex_record_line, at[i]))

\* Column i stands for place i
SamePlace == [i \in 1..Len(ex_header_cols) |-> i]

\* The last column that has the name of column i
LastPlaceOfName ==
    [i \in 1..Len(ex_header_cols) |->
        SetMax({j \in 1..Len(ex_header_cols) : ex_header_cols[j] = ex_header_cols[i]})]

\* C1, as claimed: for a record whose first token is a valid id (it matches
\* the record-id pattern) and that has as many tokens as the header has
\* columns, the result is tagged aligned and the field named header[i] holds
\* token i, an empty token made absent, for every column i.
C1_FieldOfColumnIsItsToken ==
    (ex_pc = "returned" /\ RE_BS_ID(RecordId) /\ SameCount) => AlignedResult(SamePlace)

\* C1, amended: for a record whose first token, without byte-order mark,
\* blanks and quotes, begins with the upper-case letters BE- and that has as
\* many tokens as the header has columns, the result is tagged aligned, its
\* fields are exactly the header's names, and the field named header[i] holds
\* the (stripped) token at the last column of that name, an empty token made
\* absent: token i itself wherever the name of column i does not come again.
\* No field holds the normalised id or a value found by the heuristics.
C1_FieldOfNameIsItsLastToken ==
    (ex_pc = "returned" /\ StartsWith(RecordId, "BE-") /\ SameCount)
        => AlignedResult(LastPlaceOfName)

\* C1 witness: an aligned result for a record with a quoted id, under a
\* header that has a name twice with different tokens at its two places
C1_Witness ==
    /\ ex_pc = "returned"
    /\ SameCount
    /\ ex_result # None
    /\ ex_result[1].aligned
    /\ TokenOf(ex_record_line, 1) # RecordId
    /\ \E i, j \in 1..Len(ex_header_cols) :
          /\ i < j
          /\ ex_header_cols[i] = ex_header_cols[j]
          /\ TokenOf(ex_record_line, i) # TokenOf(ex_record_line, j)

-----------------------------------------------------------------------------
(* Properties of the loop of main *)

Last(s) == s[Len(s)]

\* One turn of the loop over the records, from the state before it to the
\* state after it; the record it reads is rebuilt_lines[ri]
LoopTurn == pc = "loop" /\ ri' = ri + 1

\* The turn appends one record to the report
Emits == Len(records') = Len(records) + 1 /\ SubSeq(records', 1, Len(records)) = records

\* The turn appends one entry to the anomaly list
Flags == Len(anomalies') = Len(anomalies) + 1
            /\ SubSeq(anomalies', 1, Len(anomalies)) = anomalies

\* The end date and time of an emitted record, as a datetime
EmittedEnd(rec) ==
    [year   |-> rec["Date Fin planification"][1].year,
     month  |-> rec["Date Fin planification"][1].month,
     day    |-> rec["Date Fin planification"][1].day,
     hour   |-> rec["Heure Fin planification"][1].hour,
     minute |-> rec["Heure Fin planification"][1].minute,
     second |-> rec["Heure Fin planification"][1].second]

\* Start and end of the record both parse
BothParse(loc) == loc.start_dt # None /\ loc.end_dt # None

\* Start and end both parse and the end is before the start
EndBeforeStart(loc) == BothParse(loc) /\ DtLess(loc.end_dt[1], loc.start_dt[1])

TwelveHours == 12 * 3600

\* C3, as claimed: every record of the report has an ID, and it begins with
\* the record-id prefix, BE- followed by digits and a separator.
C3_EveryIdMatchesPattern ==
    \A i \in 1..Len(records) :
        records[i]["ID"] # None /\ RE_BS_ID(records[i]["ID"][1])

\* C3, amended: every record of the report comes from a logical record whose
\* first token, without byte-order mark, blanks and quotes, begins with the
\* upper-case letters BE- (digits are not required); no other record is
\* emitted.  On the heuristic path the ID is that normalised token.  On the
\* aligned path the ID is the token of the header's last ID column as it
\* stands, quotes and byte-order mark included, and it is absent when that
\* token is empty or the header has no ID column.
C3_EmittedIdComesFromBEToken ==
    [][ LoopTurn =>
          /\ records' = records \/ Emits
          /\ Emits =>
                LET rec  == rebuilt_lines[ri]
                    ids  == {j \in 1..Len(header_cols) : header_cols[j] = "ID"}
                    id   == Last(records')["ID"]
                IN  /\ StartsWith(NormalizeId(TokenOf(rec, 1)), "BE-")
                    /\ IF Len(Split(rec, ";")) # Len(header_cols)
                       THEN id = Some(NormalizeId(TokenOf(rec, 1)))
                       ELSE IF ids = {} THEN id = None
                       ELSE id = OrNone(TokenOf(rec, SetMax(ids)))
      ]_vars

\* C3 witness: the report holds a record of the heuristic path, whose id came
\* behind a byte-order mark and in quotes, and a record of the aligned path
\* with its id still in quotes
C3_Witness ==
    /\ pc = "report"
    /\ Len(records) = 2
    /\ records[1]["ID"] = Some("BE-2002-")
    /\ records[2]["ID"] = Some("\"BE-1014-\"")

\* C4: when a record is emitted whose start and end both parse, then if the
\* end is before the start the emitted end date and time are the parsed end
\* plus exactly twelve hours, the emitted duration is that corrected end
\* minus the start, and the turn adds an anomaly entry for the record whose
\* notes name the +12h shift and which shows the corrected end and duration;
\* if the end is not before the start the emitted end is the parsed end, the
\* duration is end minus start and no note names a shift.
C4_TwelveHourCorrection ==
    [][ (LoopTurn /\ Emits /\ BothParse(it')) =>
          LET rec   == Last(records')
              start == it'.start_dt[1]
              end   == it'.end_dt[1]
          IN  /\ rec["Date Fin planification"] # None
              /\ rec["Heure Fin planification"] # None
              /\ rec["Date Début planification"] = Some(DateOf(start))
              /\ rec["Heure Début planification"] = Some(TimeOf(start))
              /\ rec["Durée"] = Some(TimedeltaStr(Minus(EmittedEnd(rec), start)))
              /\ IF DtLess(end, start)
                 THEN /\ Minus(EmittedEnd(rec), end) = TwelveHours
                      /\ Flags
                      /\ Last(anomalies')["ID"] = rec["ID"]
                      /\ Contains(Last(anomalies')["Notes"], "+12h")
                      /\ Last(anomalies')["Fin planification (corrigée)"]
                            = Some(FormatCorrected(EmittedEnd(rec)))
                      /\ Last(anomalies')["Durée (corrigée)"] = rec["Durée"]
                 ELSE /\ EmittedEnd(rec) = end
                      /\ ~Flags \/ ~Contains(Last(anomalies')["Notes"], "+12h")
      ]_vars

\* C4 witness: a record was emitted whose end was before its start and whose
\* corrected end is on the day after the parsed end
C4_Witness ==
    /\ pc = "loop"
    /\ it.keep
    /\ EndBeforeStart(it)
    /\ records # <<>>
    /\ EmittedEnd(Last(records)).day # it.end_dt[1].day

\* C5: a record whose start parses with year Y and whose end parses with
\* year Y + 1 is emitted when the target year is Y and when it is Y + 1; a
\* record of which neither start nor end parses and whose created date
\* parses is emitted when the target year is the year of the created date,
\* and for every other target year nothing is emitted for it.
C5_YearFilter ==
    [][ (LoopTurn /\ it'.ex # None) =>
          /\ ( /\ BothParse(it')
               /\ it'.end_dt[1].year = it'.start_dt[1].year + 1
               /\ year \in {it'.start_dt[1].year, it'.end_dt[1].year} )
                => Emits
          /\ (it'.start_dt = None /\ it'.end_dt = None /\ it'.created_date # None)
                => IF it'.created_date[1].year = year THEN Emits
                   ELSE records' = records /\ anomalies' = anomalies
      ]_vars

\* C5 witness: a record that starts in 2025 and ends in 2026 was emitted for
\* the target year 2026, after a record without planning dates, created in
\* 2025, was skipped
C5_Witness ==
    /\ pc = "loop"
    /\ year = 2026
    /\ ri = 4
    /\ skipped_other_year = 1
    /\ Len(records) = 1
    /\ BothParse(it)
    /\ it.start_dt[1].year = 2025
    /\ it.end_dt[1].year = 2026
    /\ parse_date_only(TokenOf(rebuilt_lines[2], 3)) # None
    /\ parse_date_only(TokenOf(rebuilt_lines[2], 3))[1].year = 2025
    /\ TokenOf(rebuilt_lines[2], 4) = ""
    /\ TokenOf(rebuilt_lines[2], 5) = ""

\* The end after the 12-hour correction: the end plus twelve hours when start
\* and end both parse and the end is before the start, and else the end
CorrectedEndOf(loc) ==
    IF EndBeforeStart(loc) THEN Some(PlusTwelveHours(loc.end_dt[1])) ELSE loc.end_dt

\* C6, as claimed: when at least one of start and end parses, the record is
\* emitted exactly when the target year is the year of the start or the year
\* of the corrected end.
C6_FilterOnCorrectedEnd ==
    [][ (LoopTurn /\ it'.ex # None /\ (it'.start_dt # None \/ it'.end_dt # None)) =>
          (Emits <=> \/ in_year(it'.start_dt, year)
                     \/ in_year(CorrectedEndOf(it'), year))
      ]_vars

\* The triggers of an anomaly
StartParseFailure(loc) == ~is_empty(loc.start_raw) /\ loc.start_dt = None

EndParseFailure(loc) == ~is_empty(loc.end_raw) /\ loc.end_dt = None

StillNegative(loc) ==
    /\ loc.start_dt # None
    /\ loc.end_dt_corrected # None
    /\ DtLess(loc.end_dt_corrected[1], loc.start_dt[1])

AnyTrigger(loc) ==
    \/ StartParseFailure(loc) \/ EndParseFailure(loc)
    \/ loc.start_dt = None \/ loc.end_dt = None
    \/ is_empty(loc.agents_equipes)
    \/ EndBeforeStart(loc)
    \/ StillNegative(loc)

\* The notes name each trigger that holds and no other
NotesNameTheTriggers(loc, notes) ==
    /\ StartParseFailure(loc) <=> \E k \in 1..Len(notes) : StartsWith(notes[k], "Start parse error: ")
    /\ EndParseFailure(loc) <=> \E k \in 1..Len(notes) : StartsWith(notes[k], "End parse error: ")
    /\ loc.start_dt = None <=> \E k \in 1..Len(notes) : notes[k] = "Start missing"
    /\ loc.end_dt = None <=> \E k \in 1..Len(notes) : notes[k] = "End missing"
    /\ is_empty(loc.agents_equipes)
          <=> \E k \in 1..Len(notes) : notes[k] = "Agents/Équipes missing"
    /\ EndBeforeStart(loc) <=> \E k \in 1..Len(notes) : StartsWith(notes[k], "End time shifted +12h")
    /\ StillNegative(loc) <=> \E k \in 1..Len(notes) : StartsWith(notes[k], "Duration still negative")
    /\ Len(notes) <= 7

\* C7: a turn that emits a record adds exactly one anomaly entry when at
\* least one trigger holds (start or end does not parse, start or end absent,
\* Agents/Équipes absent or blank, 12-hour correction applied, duration still
\* negative after it) and none when no trigger holds; the entry carries the
\* record's ID and its Notes are the record's notes, one for each trigger
\* that holds, joined by " | "; a turn that skips its record adds no entry.
C7_AnomalyClassification ==
    [][ (LoopTurn /\ it'.ex # None) =>
          IF Emits
          THEN /\ NotesNameTheTriggers(it', it'.notes)
               /\ IF AnyTrigger(it')
                  THEN /\ Flags
                       /\ Last(anomalies')["Notes"] = Join(it'.notes, " | ")
                       /\ Last(anomalies')["ID"] = Last(records')["ID"]
                  ELSE anomalies' = anomalies
          ELSE records' = records /\ anomalies' = anomalies
      ]_vars

\* C7 witness: of two emitted records the first is an anomaly for the
\* 12-hour correction alone and the second, without any trigger, is none
C7_Witness ==
    /\ pc = "loop"
    /\ Len(records) = 2
    /\ Len(anomalies) = 1
    /\ anomalies[1]["Notes"] = "End time shifted +12h (12h ambiguity forced)"
    /\ it.keep
    /\ ~AnyTrigger(it)

\* No line of the input starts a record after the header
NoRecordStart(ls) == Len(ExpectedRebuilt(ls)) <= 1

\* C8, as claimed: the run fails exactly when the reassembly yields no
\* record: on an empty or all-blank input and also on an input with a header
\* and no line that starts a record.
C8_FatalWithoutRecords ==
    pc # "start" => (pc = "error" <=> NoRecordStart(raw_lines))

\* C8, amended: the run fails, before any record is read and with nothing to
\* report, exactly when the input has no non-blank line.  An input with a
\* header line and no line that starts a record does not fail: the loop runs
\* over no record.  A record with a date that does not parse, without anchor
\* or with a first token that is no id never ends the run: every record read
\* is emitted or skipped, and the report is made after the last one.
C8_FatalOnlyWithoutLines ==
    /\ pc # "start" => (pc = "error" <=> NonBlank(raw_lines) = {})
    /\ pc = "error" => rebuilt_lines = <<>> /\ records = <<>> /\ anomalies = <<>>
    /\ pc \in {"loop", "report"} =>
          /\ ri <= Len(rebuilt_lines) + 1
          /\ kept + skipped_other_year = ri - 2
          /\ Len(records) = kept
    /\ pc = "report" => ri = Len(rebuilt_lines) + 1

\* C8 witness: an input of a header line alone reached the report, empty
C8_Witness ==
    /\ pc = "report"
    /\ Len(raw_lines) = 1
    /\ Len(rebuilt_lines) = 1
    /\ records = <<>>

-----------------------------------------------------------------------------
(* Properties of extract_fields on a record whose token count differs from   *)
(* the header's column count                                                 *)

\* HH:MM or HH:MM:SS from place p to the end of t
TimeShape(t, p) ==
    /\ Len(t) - p + 1 \in {5, 8}
    /\ IsDigits(t, p, 2) /\ Ch(t, p + 2) = ":" /\ IsDigits(t, p + 3, 2)
    /\ Len(t) - p + 1 = 8 => (Ch(t, p + 5) = ":" /\ IsDigits(t, p + 6, 2))

\* DD-MM-YY HH:MM[:SS] or DD-MM-YYYY HH:MM[:SS], with - or / separators
DayFirstShape(t) ==
    \E n \in {2, 4} :
        /\ Len(t) >= 8 + n
        /\ IsDigits(t, 1, 2) /\ Ch(t, 3) \in {"-", "/"}
        /\ IsDigits(t, 4, 2) /\ Ch(t, 6) \in {"-", "/"}
        /\ IsDigits(t, 7, n) /\ Ch(t, 7 + n) = " "
        /\ TimeShape(t, 8 + n)

\* YYYY-MM-DD HH:MM[:SS], with - or / separators
YearFirstShape(t) ==
    /\ Len(t) >= 12
    /\ IsDigits(t, 1, 4) /\ Ch(t, 5) \in {"-", "/"}
    /\ IsDigits(t, 6, 2) /\ Ch(t, 8) \in {"-", "/"}
    /\ IsDigits(t, 9, 2) /\ Ch(t, 11) = " "
    /\ TimeShape(t, 12)

\* The places of the record's tokens that have the shape of a date-time
DateTimePlaces(rec) ==
    {i \in 1..Len(Split(rec, ";")) :
        DayFirstShape(TokenOf(rec, i)) \/ YearFirstShape(TokenOf(rec, i))}

\* The record takes the heuristic path: its first token is an id the
\* function accepts and its token count differs from the header's
HeuristicCall ==
    /\ ex_pc = "returned"
    /\ StartsWith(RecordId, "BE-")
    /\ ~SameCount

\* C11, as claimed: on the heuristic path the result is tagged not aligned;
\* every token of shape DD-MM-YY[YY] HH:MM[:SS] or YYYY-MM-DD HH:MM[:SS] is a
\* date-time anchor, so when the record has at least two such tokens, Début
\* planification is the second-to-last of them and Fin planification the
\* last, and when it has fewer than two neither field is extracted.
C11_LastTwoDateTimesArePlanning ==
    HeuristicCall =>
        /\ ex_result # None
        /\ ex_result[1].aligned = FALSE
        /\ LET places == Ascending(DateTimePlaces(ex_record_line))
               n      == Len(places)
               f      == ex_result[1].fields
           IN  IF n >= 2
               THEN /\ Get(f, "Début planification")
                          = Some(TokenOf(ex_record_line, places[n - 1]))
                    /\ Get(f, "Fin planification")
                          = Some(TokenOf(ex_record_line, places[n]))
               ELSE /\ Get(f, "Début planification") = None
                    /\ Get(f, "Fin planification") = None

=============================================================================
